---- MODULE Spec2Model ----
(***************************************************************************)
(* Model of src/src/library.rs: the Library / Namespace type registry,     *)
(* its name resolution (Library::get_type), definition (add_type),         *)
(* container synthesis (Type::container) and the validation sweep          *)
(* (check_resolved).                                                       *)
(*                                                                         *)
(* Names are TLA+ strings, so split('.') and format!() are computed on     *)
(* characters.  Vec indices are 0-based in the code and 1-based here:      *)
(* slot id lives at types[id + 1], namespace ns_id at namespaces[ns_id+1]. *)
(***************************************************************************)
EXTENDS Integers, Sequences, FiniteSets, TLC

VARIABLES
    namespaces,  \* Library.namespaces : Vec<Namespace>
    index,       \* Library.index      : HashMap<String, u16>
    call,        \* the operation that ran last, with its arguments
    ret,         \* what that operation returned (or that it panicked)
    issued,      \* history: one earlier get_type call and the TypeId it returned
    synth        \* history: one earlier Type::container call and its TypeId

vars == <<namespaces, index, call, ret, issued, synth>>

(***************************************************************************)
(* Bounds of the model.                                                    *)
(***************************************************************************)
MaxSlots == 2        \* slots created after construction, all namespaces together

(***************************************************************************)
(* Values.                                                                 *)
(***************************************************************************)
INTERNAL_NAMESPACE_NAME == "*"
INTERNAL_NAMESPACE == 0

\* struct TypeId { ns_id, id }
TypeId(n, i) == [ns_id |-> n, id |-> i]

\* Option::None in a slot of Namespace.types, and the variants of enum Type
\* the operations build or store.
NoType == [kind |-> "None"]
Fundamental(f) == [kind |-> "Fundamental", f |-> f]
Alias(tid) == [kind |-> "Alias", typ |-> tid]
Record(name) == [kind |-> "Record", name |-> name]
Array(tid) == [kind |-> "Array", typ |-> tid]
HashTable(k, v) == [kind |-> "HashTable", k |-> k, v |-> v]
List(tid) == [kind |-> "List", typ |-> tid]
SList(tid) == [kind |-> "SList", typ |-> tid]
Enumeration(name) == [kind |-> "Enumeration", name |-> name]

\* const FUNDAMENTAL: the spellings and their kinds, in table order.
FUNDAMENTAL ==
    << <<"none", "None">>, <<"gboolean", "Boolean">>, <<"gint8", "Int8">>,
       <<"guint8", "UInt8">>, <<"gint16", "Int16">>, <<"guint16", "UInt16">>,
       <<"gint32", "Int32">>, <<"guint32", "UInt32">>, <<"gint64", "Int64">>,
       <<"guint64", "UInt64">>, <<"gchar", "Char">>, <<"guchar", "UChar">>,
       <<"gint", "Int">>, <<"guint", "UInt">>, <<"glong", "Long">>,
       <<"gulong", "ULong">>, <<"gsize", "Size">>, <<"gssize", "SSize">>,
       <<"gfloat", "Float">>, <<"gdouble", "Double">>,
       <<"long double", "Unsupported">>, <<"gunichar", "UniChar">>,
       <<"gpointer", "Pointer">>, <<"va_list", "Unsupported">>,
       <<"varargs", "VarArgs">>, <<"utf8", "Utf8">>, <<"filename", "Filename">>,
       <<"GType", "Type">> >>

\* The spellings of the table, and the kind the table gives a spelling
\* (the last entry wins, as each entry is add_type'd in order).
FundamentalNames == {FUNDAMENTAL[i][1] : i \in 1..Len(FUNDAMENTAL)}
FundamentalOf(s) ==
    LET i == CHOOSE i \in 1..Len(FUNDAMENTAL) :
                 /\ FUNDAMENTAL[i][1] = s
                 /\ \A j \in (i+1)..Len(FUNDAMENTAL) : FUNDAMENTAL[j][1] # s
    IN  Fundamental(FUNDAMENTAL[i][2])

\* An empty HashMap.
EmptyMap == [k \in {} |-> 0]

(***************************************************************************)
(* str::split('.') : the segments of s between the '.' characters.          *)
(***************************************************************************)
RECURSIVE Split(_)
Split(s) ==
    IF \E i \in 1..Len(s) : SubSeq(s, i, i) = "."
    THEN LET i == CHOOSE i \in 1..Len(s) :
                      /\ SubSeq(s, i, i) = "."
                      /\ \A j \in 1..(i-1) : SubSeq(s, j, j) # "."
         IN  <<SubSeq(s, 1, i-1)>> \o Split(SubSeq(s, i+1, Len(s)))
    ELSE <<s>>

\* format!("{:?}", tid) with #[derive(Debug)] on TypeId.
DebugTypeId(tid) ==
    "TypeId { ns_id: " \o ToString(tid.ns_id) \o ", id: " \o ToString(tid.id) \o " }"

(***************************************************************************)
(* impl Namespace                                                          *)
(***************************************************************************)
Namespace_new == [name |-> "", types |-> <<>>, index |-> EmptyMap]

Namespace_type_by_id(ns, id) == ns.types[id + 1]

Namespace_find_type(ns, name) ==
    IF name \in DOMAIN ns.index THEN {ns.index[name]} ELSE {}

\* Mutant: get-or-create never looks the name up.
Namespace_get_type_push(ns, name) ==
    [ns |-> [ns EXCEPT !.types = Append(@, NoType),
                       !.index = (name :> Len(ns.types)) @@ @],
     id |-> Len(ns.types)]

\* get-or-create: the namespace afterwards and the local id.
Namespace_get_type(ns, name) ==
    IF name \in DOMAIN ns.index
    THEN [ns |-> ns, id |-> ns.index[name]]
    ELSE LET id == Len(ns.types)
         IN  [ns |-> [ns EXCEPT !.types = Append(@, NoType),
                                !.index = (name :> id) @@ @],
              id |-> id]

\* Mutant: define always pushes a new slot instead of reusing the name's slot.
Namespace_add_type_push(ns, name, typ) ==
    [ns |-> [ns EXCEPT !.types = Append(@, typ),
                       !.index = (name :> Len(ns.types)) @@ @],
     id |-> Len(ns.types)]

\* Mutant: the first definition wins, a later one is dropped.
Namespace_add_type_keep(ns, name, typ) ==
    LET r == Namespace_get_type(ns, name)
    IN  IF r.ns.types[r.id + 1] = NoType
        THEN [ns |-> [r.ns EXCEPT !.types[r.id + 1] = typ], id |-> r.id]
        ELSE r

Namespace_add_type(ns, name, typ) ==
    LET r == Namespace_get_type(ns, name)
    IN  [ns |-> [r.ns EXCEPT !.types[r.id + 1] = typ], id |-> r.id]

\* The names whose slot is None (HashMap iteration order is unspecified:
\* the Vec is modelled by the set of its elements).
Namespace_unresolved(ns) ==
    {name \in DOMAIN ns.index : ns.types[ns.index[name] + 1] = NoType}

(***************************************************************************)
(* Results of an operation.                                                *)
(***************************************************************************)
Some(tid) == [outcome |-> "ok", tid |-> tid]
None == [outcome |-> "none"]
Unit == [outcome |-> "ok"]
Panic(msg) == [outcome |-> "panic", msg |-> msg]

(***************************************************************************)
(* impl Library.  A library value L is [namespaces, index].                *)
(***************************************************************************)
Lib == [namespaces |-> namespaces, index |-> index]

\* namespaces[ns_id as usize] is in range.
HasNamespaceId(L, ns_id) == ns_id \in 0..(Len(L.namespaces) - 1)

Library_namespace(L, ns_id) == L.namespaces[ns_id + 1]

Library_has_namespace(L, name) == name \in DOMAIN L.index

\* Mutant: a namespace is created on every call, the name is not looked up.
Library_get_namespace_push(L, name) ==
    LET id == Len(L.namespaces)
    IN  [L |-> [namespaces |-> Append(L.namespaces, Namespace_new),
                index |-> (name :> id) @@ L.index],
         id |-> id]

\* get-or-create a namespace by name: the library afterwards and the id.
Library_get_namespace(L, name) ==
    IF name \in DOMAIN L.index
    THEN [L |-> L, id |-> L.index[name]]
    ELSE LET id == Len(L.namespaces)
         IN  [L |-> [namespaces |-> Append(L.namespaces, Namespace_new),
                     index |-> (name :> id) @@ L.index],
              id |-> id]

\* Mutant: an identifier that indexes no namespace falls back to namespace 0.
Library_add_type_fallback(L, ns_id, name, typ) ==
    LET id == IF HasNamespaceId(L, ns_id) THEN ns_id ELSE INTERNAL_NAMESPACE
        r == Namespace_add_type(Library_namespace(L, id), name, typ)
    IN  [L |-> [L EXCEPT !.namespaces[id + 1] = r.ns],
         ret |-> Some(TypeId(id, r.id))]

\* Mutant: the returned local identifier is the length after the write
\* instead of the slot's position.
Library_add_type_len(L, ns_id, name, typ) ==
    IF ~HasNamespaceId(L, ns_id)
    THEN [L |-> L, ret |-> Panic("index out of bounds")]
    ELSE LET r == Namespace_add_type(Library_namespace(L, ns_id), name, typ)
         IN  [L |-> [L EXCEPT !.namespaces[ns_id + 1] = r.ns],
              ret |-> Some(TypeId(ns_id, Len(r.ns.types)))]

\* namespace_mut(ns_id) indexes the Vec: out of range it panics before
\* anything is written.
Library_add_type(L, ns_id, name, typ) ==
    IF ~HasNamespaceId(L, ns_id)
    THEN [L |-> L, ret |-> Panic("index out of bounds")]
    ELSE LET r == Namespace_add_type(Library_namespace(L, ns_id), name, typ)
         IN  [L |-> [L EXCEPT !.namespaces[ns_id + 1] = r.ns],
              ret |-> Some(TypeId(ns_id, r.id))]

\* Mutant: the qualifier is dropped and the name resolved as if unqualified.
Library_get_type_unqualified(L, current_ns_id, name) ==
    LET parts == Split(name)
        n == Len(parts)
        nm == parts[n]
    IN  IF n > 2
        THEN [L |-> L, ret |-> Panic("assertion failed")]
        ELSE IF Namespace_find_type(Library_namespace(L, INTERNAL_NAMESPACE), nm) # {}
        THEN [L |-> L,
              ret |-> Some(TypeId(INTERNAL_NAMESPACE,
                      CHOOSE id \in Namespace_find_type(
                          Library_namespace(L, INTERNAL_NAMESPACE), nm) : TRUE))]
        ELSE IF ~HasNamespaceId(L, current_ns_id)
        THEN [L |-> L, ret |-> Panic("index out of bounds")]
        ELSE LET r == Namespace_get_type(Library_namespace(L, current_ns_id), nm)
             IN  [L |-> [L EXCEPT !.namespaces[current_ns_id + 1] = r.ns],
                  ret |-> Some(TypeId(current_ns_id, r.id))]

\* Mutant: the segments before the last two are ignored, nothing is asserted.
Library_get_type_lenient(L, current_ns_id, name) ==
    LET parts == Split(name)
        n == Len(parts)
        nm == parts[n]
    IN  IF n >= 2
        THEN LET g == Library_get_namespace(L, parts[n - 1])
                 r == Namespace_get_type(Library_namespace(g.L, g.id), nm)
             IN  [L |-> [g.L EXCEPT !.namespaces[g.id + 1] = r.ns],
                  ret |-> Some(TypeId(g.id, r.id))]
        ELSE IF Namespace_find_type(Library_namespace(L, INTERNAL_NAMESPACE), nm) # {}
        THEN [L |-> L,
              ret |-> Some(TypeId(INTERNAL_NAMESPACE,
                      CHOOSE id \in Namespace_find_type(
                          Library_namespace(L, INTERNAL_NAMESPACE), nm) : TRUE))]
        ELSE IF ~HasNamespaceId(L, current_ns_id)
        THEN [L |-> L, ret |-> Panic("index out of bounds")]
        ELSE LET r == Namespace_get_type(Library_namespace(L, current_ns_id), nm)
             IN  [L |-> [L EXCEPT !.namespaces[current_ns_id + 1] = r.ns],
                  ret |-> Some(TypeId(current_ns_id, r.id))]

Library_get_type(L, current_ns_id, name) ==
    LET parts == Split(name)
        n == Len(parts)
        nm == parts[n]                                    \* parts.next_back().unwrap()
        ns == IF n >= 2 THEN {parts[n - 1]} ELSE {}       \* parts.next_back()
    IN  IF ~(ns = {} \/ n = 2)                            \* assert!
        THEN [L |-> L, ret |-> Panic("assertion failed")]
        ELSE IF ns # {}
        THEN LET g == Library_get_namespace(L, CHOOSE x \in ns : TRUE)
                 r == Namespace_get_type(Library_namespace(g.L, g.id), nm)
             IN  [L |-> [g.L EXCEPT !.namespaces[g.id + 1] = r.ns],
                  ret |-> Some(TypeId(g.id, r.id))]
        ELSE IF Namespace_find_type(Library_namespace(L, INTERNAL_NAMESPACE), nm) # {}
        THEN [L |-> L,
              ret |-> Some(TypeId(INTERNAL_NAMESPACE,
                      CHOOSE id \in Namespace_find_type(
                          Library_namespace(L, INTERNAL_NAMESPACE), nm) : TRUE))]
        ELSE IF ~HasNamespaceId(L, current_ns_id)
        THEN [L |-> L, ret |-> Panic("index out of bounds")]
        ELSE LET r == Namespace_get_type(Library_namespace(L, current_ns_id), nm)
             IN  [L |-> [L EXCEPT !.namespaces[current_ns_id + 1] = r.ns],
                  ret |-> Some(TypeId(current_ns_id, r.id))]

\* type_by_id: the slot's content (NoType for an empty slot).  Only called
\* on TypeIds in range; InRange says so.
InRange(L, tid) ==
    /\ HasNamespaceId(L, tid.ns_id)
    /\ tid.id \in 0..(Len(Library_namespace(L, tid.ns_id).types) - 1)

Library_type_by_id(L, tid) ==
    Namespace_type_by_id(Library_namespace(L, tid.ns_id), tid.id)

\* format!("{}.{}", name, s)
QualifiedName(name, s) == name \o "." \o s

\* Mutant: only the internal namespace is swept.
UnresolvedList_internal(L) ==
    {QualifiedName(INTERNAL_NAMESPACE_NAME, s) :
        s \in Namespace_unresolved(Library_namespace(L, INTERNAL_NAMESPACE))}

\* The list check_resolved collects, as the set of its elements.
UnresolvedList(L) ==
    UNION { {QualifiedName(name, s) :
                s \in Namespace_unresolved(Library_namespace(L, L.index[name]))} :
            name \in DOMAIN L.index }

\* Mutant: the sweep stops at one representative unresolved name.
Library_check_resolved_first(L) ==
    LET list == UnresolvedList(L)
    IN  IF list # {}
        THEN [outcome |-> "panic", msg |-> "Incomplete library",
              list |-> {CHOOSE q \in list : TRUE}]
        ELSE Unit

Library_check_resolved(L) ==
    LET list == UnresolvedList(L)
    IN  IF list # {}
        THEN [outcome |-> "panic", msg |-> "Incomplete library", list |-> list]
        ELSE Unit

\* Library::new(): the internal namespace, named "*", seeded with FUNDAMENTAL.
RECURSIVE AddFundamentals(_, _)
AddFundamentals(L, i) ==
    IF i > Len(FUNDAMENTAL) THEN L
    ELSE AddFundamentals(
             Library_add_type(L, INTERNAL_NAMESPACE, FUNDAMENTAL[i][1],
                              Fundamental(FUNDAMENTAL[i][2])).L,
             i + 1)

Library_new ==
    LET g == Library_get_namespace([namespaces |-> <<>>, index |-> EmptyMap],
                                   INTERNAL_NAMESPACE_NAME)
        named == [g.L EXCEPT !.namespaces[INTERNAL_NAMESPACE + 1].name =
                                 INTERNAL_NAMESPACE_NAME]
    IN  AddFundamentals(named, 1)

(***************************************************************************)
(* Type::container                                                         *)
(***************************************************************************)
\* The four format!() keys.
ArrayKey(tid) == "array(#" \o DebugTypeId(tid) \o ")"

\* Mutant: the key is built from the two elements in sorted order.
HashTableKey_sorted(k_tid, v_tid) ==
    LET first == IF <<k_tid.ns_id, k_tid.id>> = <<v_tid.ns_id, v_tid.id>>
                    \/ k_tid.ns_id < v_tid.ns_id
                    \/ (k_tid.ns_id = v_tid.ns_id /\ k_tid.id < v_tid.id)
                 THEN k_tid ELSE v_tid
        second == IF first = k_tid THEN v_tid ELSE k_tid
    IN  "HashTable(#" \o DebugTypeId(first) \o ", #" \o DebugTypeId(second) \o ")"

HashTableKey(k_tid, v_tid) ==
    "HashTable(#" \o DebugTypeId(k_tid) \o ", #" \o DebugTypeId(v_tid) \o ")"

ListKey(tid) == "List(#" \o DebugTypeId(tid) \o ")"

SListKey(tid) == "SList(#" \o DebugTypeId(tid) \o ")"

\* The match on (name, inner.len()): the canonical key and the type, or {}.
ContainerKey(name, inner) ==
    IF name = "array" /\ Len(inner) = 1
    THEN {<<ArrayKey(inner[1]), Array(inner[1])>>}
    ELSE IF name = "GLib.HashTable" /\ Len(inner) = 2
    THEN {<<HashTableKey(inner[1], inner[2]), HashTable(inner[1], inner[2])>>}
    ELSE IF name = "GLib.List" /\ Len(inner) = 1
    THEN {<<ListKey(inner[1]), List(inner[1])>>}
    ELSE IF name = "GLib.SList" /\ Len(inner) = 1
    THEN {<<SListKey(inner[1]), SList(inner[1])>>}
    ELSE {}

\* Mutant: every synthesis creates a type of its own, under a fresh key.
Type_container_recreate(L, name, inner) ==
    LET m == ContainerKey(name, inner)
    IN  IF m = {} THEN [L |-> L, ret |-> None]
        ELSE LET kt == CHOOSE x \in m : TRUE
                 n == Len(Library_namespace(L, INTERNAL_NAMESPACE).types)
             IN  Library_add_type(L, INTERNAL_NAMESPACE,
                                  kt[1] \o "@" \o ToString(n), kt[2])

\* Mutant: an unknown kind or arity degrades to a generic pointer type.
Type_container_fallback(L, name, inner) ==
    LET m == ContainerKey(name, inner)
    IN  IF m = {}
        THEN Library_add_type(L, INTERNAL_NAMESPACE, name, Fundamental("Pointer"))
        ELSE LET kt == CHOOSE x \in m : TRUE
             IN  Library_add_type(L, INTERNAL_NAMESPACE, kt[1], kt[2])

Type_container(L, name, inner) ==
    LET m == ContainerKey(name, inner)
    IN  IF m = {} THEN [L |-> L, ret |-> None]
        ELSE LET kt == CHOOSE x \in m : TRUE
             IN  Library_add_type(L, INTERNAL_NAMESPACE, kt[1], kt[2])

(***************************************************************************)
(* trait AsArg: the representation of a type as a C argument.  A derivation *)
(* yields a string, panics, or recurses without end (the stack overflows). *)
(***************************************************************************)
Str(s) == [outcome |-> "ok", repr |-> s]
Overflow == [outcome |-> "overflow"]

\* Mutant: an unsupported fundamental degrades to the untyped representation.
Fundamental_as_arg_void(f) ==
    CASE f = "Boolean" -> Str("gboolean")
      [] f = "Int8" -> Str("gint8")
      [] f = "UInt8" -> Str("guint8")
      [] f = "Int16" -> Str("gint16")
      [] f = "UInt16" -> Str("guint16")
      [] f = "Int32" -> Str("gint32")
      [] f = "UInt32" -> Str("guint32")
      [] f = "Int64" -> Str("gint64")
      [] f = "UInt64" -> Str("guint64")
      [] f = "Char" -> Str("gchar")
      [] f = "UChar" -> Str("guchar")
      [] f = "Int" -> Str("gint")
      [] f = "UInt" -> Str("guint")
      [] f = "Long" -> Str("glong")
      [] f = "ULong" -> Str("gulong")
      [] f = "Size" -> Str("gsize")
      [] f = "SSize" -> Str("gssize")
      [] f = "Float" -> Str("gfloat")
      [] f = "Double" -> Str("gdouble")
      [] f = "UniChar" -> Str("gunichar")
      [] f = "Pointer" -> Str("gpointer")
      [] f = "VarArgs" -> Str("...")
      [] f = "Utf8" -> Str("*const c_char")
      [] f = "Filename" -> Str("*const c_char")
      [] f = "Type" -> Str("GType")
      [] f = "None" -> Str("c_void")
      [] f = "Unsupported" -> Str("c_void")

\* impl AsArg for Fundamental
Fundamental_as_arg(f) ==
    CASE f = "Boolean" -> Str("gboolean")
      [] f = "Int8" -> Str("gint8")
      [] f = "UInt8" -> Str("guint8")
      [] f = "Int16" -> Str("gint16")
      [] f = "UInt16" -> Str("guint16")
      [] f = "Int32" -> Str("gint32")
      [] f = "UInt32" -> Str("guint32")
      [] f = "Int64" -> Str("gint64")
      [] f = "UInt64" -> Str("guint64")
      [] f = "Char" -> Str("gchar")
      [] f = "UChar" -> Str("guchar")
      [] f = "Int" -> Str("gint")
      [] f = "UInt" -> Str("guint")
      [] f = "Long" -> Str("glong")
      [] f = "ULong" -> Str("gulong")
      [] f = "Size" -> Str("gsize")
      [] f = "SSize" -> Str("gssize")
      [] f = "Float" -> Str("gfloat")
      [] f = "Double" -> Str("gdouble")
      [] f = "UniChar" -> Str("gunichar")
      [] f = "Pointer" -> Str("gpointer")
      [] f = "VarArgs" -> Str("...")
      [] f = "Utf8" -> Str("*const c_char")
      [] f = "Filename" -> Str("*const c_char")
      [] f = "Type" -> Str("GType")
      [] f = "None" -> Str("c_void")
      [] f = "Unsupported" -> Panic("unsupported type")

\* format!("*mut {}", s)
PointerTo(s) == "*mut " \o s

\* Mutant: an alias is rendered as a pointer to its target.
AliasRepr_pointer(target) == PointerTo(target)

\* The Alias arm: the target's representation, as it is.
AliasRepr(target) == target

\* Mutant: an array is rendered as an opaque array pointer.
ArrayRepr_opaque(element) == "*mut GArray"

\* The Array arm: a pointer to the element's representation.
ArrayRepr(element) == PointerTo(element)

\* The three arms that ignore their element types.
HashTableRepr == "*mut GHashTable"
ListRepr == "*mut GList"
SListRepr == "*mut GSList"

\* impl AsArg for Type.  seen holds the TypeIds the derivation went through:
\* coming back to one of them, the recursion never ends.  Deref is
\* library.type_by_id(tid).unwrap().as_arg(library): the index panics out of
\* range, unwrap() panics on an empty slot.
RECURSIVE Type_as_arg(_, _, _), Deref(_, _, _)
Type_as_arg(L, typ, seen) ==
    CASE typ.kind = "Fundamental" -> Fundamental_as_arg(typ.f)
      [] typ.kind = "Alias" ->
            LET r == Deref(L, typ.typ, seen)
            IN  IF r.outcome = "ok" THEN Str(AliasRepr(r.repr)) ELSE r
      [] typ.kind \in {"Enumeration", "Bitfield"} -> Str(typ.name)
      [] typ.kind \in {"Record", "Union", "Interface", "Class"} ->
            Str(PointerTo(typ.name))
      [] typ.kind = "Callback" -> Str("TODO")
      [] typ.kind = "Array" ->
            LET r == Deref(L, typ.typ, seen)
            IN  IF r.outcome = "ok" THEN Str(ArrayRepr(r.repr)) ELSE r
      [] typ.kind = "HashTable" -> Str(HashTableRepr)
      [] typ.kind = "List" -> Str(ListRepr)
      [] typ.kind = "SList" -> Str(SListRepr)

Deref(L, tid, seen) ==
    IF ~InRange(L, tid) THEN Panic("index out of bounds")
    ELSE IF Library_type_by_id(L, tid) = NoType
    THEN Panic("unwrap on None")
    ELSE IF tid \in seen THEN Overflow
    ELSE Type_as_arg(L, Library_type_by_id(L, tid), seen \cup {tid})

\* The representation of the type a TypeId names.
Library_as_arg(L, tid) == Deref(L, tid, {})

(***************************************************************************)
(* The state machine: one action per public operation.  A panic ends the   *)
(* run.  The guard on MaxSlots caps the slot arenas; the namespaces are    *)
(* capped by the names the operations are driven with.                     *)
(***************************************************************************)
\* Slots created since construction.
RECURSIVE SlotCount(_, _)
SlotCount(nss, i) ==
    IF i > Len(nss) THEN 0 ELSE Len(nss[i].types) + SlotCount(nss, i + 1)

NewSlots(L) == SlotCount(L.namespaces, 1) - Len(FUNDAMENTAL)

WithinBounds(L) == NewSlots(L) <= MaxSlots

\* A panic, and a stack overflow, end the run.
Running == ret.outcome \notin {"panic", "overflow"}

\* No call remembered yet.
NoCall == [op |-> "none"]

Init ==
    /\ namespaces = Library_new.namespaces
    /\ index = Library_new.index
    /\ call = [op |-> "new"]
    /\ ret = Unit
    /\ issued = NoCall
    /\ synth = NoCall

\* issued and synth remember one successful earlier call each, any one of
\* them: the call is either kept for later comparison or let go.  L is the
\* library the call left; typ is what type_by_id gave for the TypeId then.
Remember(old, c, r, L) ==
    IF old = NoCall /\ r.outcome = "ok"
    THEN {old, [op |-> c.op, call |-> c, tid |-> r.tid,
                typ |-> Library_type_by_id(L, r.tid)]}
    ELSE {old}

GetNamespace(name) ==
    LET g == Library_get_namespace(Lib, name)
    IN  /\ Running
        /\ WithinBounds(g.L)
        /\ namespaces' = g.L.namespaces
        /\ index' = g.L.index
        /\ call' = [op |-> "get_namespace", name |-> name]
        /\ ret' = [outcome |-> "ok", ns_id |-> g.id]
        /\ UNCHANGED <<issued, synth>>

GetType(current_ns_id, name) ==
    LET r == Library_get_type(Lib, current_ns_id, name)
    IN  /\ Running
        /\ WithinBounds(r.L)
        /\ namespaces' = r.L.namespaces
        /\ index' = r.L.index
        /\ call' = [op |-> "get_type", ns_id |-> current_ns_id, name |-> name]
        /\ ret' = r.ret
        /\ issued' \in Remember(issued, call', ret', r.L)
        /\ UNCHANGED synth

AddType(ns_id, name, typ) ==
    LET r == Library_add_type(Lib, ns_id, name, typ)
    IN  /\ Running
        /\ WithinBounds(r.L)
        /\ namespaces' = r.L.namespaces
        /\ index' = r.L.index
        /\ call' = [op |-> "add_type", ns_id |-> ns_id, name |-> name, typ |-> typ]
        /\ ret' = r.ret
        /\ UNCHANGED <<issued, synth>>

Container(name, inner) ==
    LET r == Type_container(Lib, name, inner)
    IN  /\ Running
        /\ WithinBounds(r.L)
        /\ namespaces' = r.L.namespaces
        /\ index' = r.L.index
        /\ call' = [op |-> "container", name |-> name, inner |-> inner]
        /\ ret' = r.ret
        /\ synth' \in Remember(synth, call', ret', r.L)
        /\ UNCHANGED issued

CheckResolved ==
    /\ Running
    /\ call' = [op |-> "check_resolved"]
    /\ ret' = Library_check_resolved(Lib)
    /\ UNCHANGED <<namespaces, index, issued, synth>>

\* One step: any operation, its arguments drawn from the given sets.
Step(nsNames, nsIds, refs, names, typs, kinds, lists) ==
    \/ \E name \in nsNames : GetNamespace(name)
    \/ \E ns_id \in nsIds, name \in refs : GetType(ns_id, name)
    \/ \E ns_id \in nsIds, name \in names, typ \in typs : AddType(ns_id, name, typ)
    \/ \E name \in kinds, inner \in lists : Container(name, inner)
    \/ CheckResolved

ElementA == TypeId(0, 6)
ElementB == TypeId(1, 0)

\* Resolution and definition, with a little container synthesis in between.
\* Namespace id 2 exists only once both "Foo" and "GLib" do.
Next ==
    Step({"Foo"}, 0..2,
         {"gint32", "Widget", "GLib.Widget", "*.Widget", "A.B.C"},
         {"gint32", "Widget"}, {Record("Widget")},
         {"array"}, {<<ElementA>>})

Spec == Init /\ [][Next]_vars

\* Container synthesis, with a little resolution and definition in the
\* internal namespace in between.
NextContainer ==
    Step({"Foo"}, {INTERNAL_NAMESPACE}, {"Widget"}, {"Widget"}, {Record("Widget")},
         {"array", "GLib.List", "GLib.SList", "GLib.HashTable", "GLib.Tree"},
         {<<>>, <<ElementA>>, <<ElementB>>,
          <<ElementA, ElementB>>, <<ElementB, ElementA>>})

SpecContainer == Init /\ [][NextContainer]_vars

\* as_arg on the type of a TypeId: a query, the library is left as it is.
AsArg(tid) ==
    /\ Running
    /\ call' = [op |-> "as_arg", tid |-> tid]
    /\ ret' = Library_as_arg(Lib, tid)
    /\ UNCHANGED <<namespaces, index, issued, synth>>

\* The TypeIds a type stores.
TidsOf(typ) ==
    CASE typ.kind \in {"Alias", "Array", "List", "SList"} -> {typ.typ}
      [] typ.kind = "HashTable" -> {typ.k, typ.v}
      [] OTHER -> {}

\* Aliases, containers and their representations.  The fields of TypeId are
\* private: a caller holds only TypeIds the library returned, so the TypeIds
\* in the arguments are in range at the call.  No call is remembered here.
ReprTargets == {TypeId(0, 6), TypeId(0, 20), TypeId(1, 0), TypeId(1, 1)}
ReprTypes == {Alias(t) : t \in ReprTargets} \cup {Enumeration("Flags")}
ReprElements ==
    {<<t>> : t \in {TypeId(0, 1), TypeId(0, 6), TypeId(0, 20), TypeId(1, 0)}}
        \cup {<<TypeId(0, 1), TypeId(0, 6)>>, <<TypeId(0, 6), TypeId(0, 1)>>}
ReprQueries == ReprTargets \cup {TypeId(0, 28), TypeId(0, 29)}

NextRepr ==
    \/ GetNamespace("Foo") /\ UNCHANGED <<issued, synth>>
    \/ \E name \in {"A", "B"} : GetType(1, name) /\ UNCHANGED <<issued, synth>>
    \/ \E name \in {"A", "B"}, typ \in ReprTypes :
           /\ \A t \in TidsOf(typ) : InRange(Lib, t)
           /\ AddType(1, name, typ)
    \/ \E name \in {"array", "GLib.List", "GLib.SList", "GLib.HashTable"},
          inner \in ReprElements :
           /\ \A i \in 1..Len(inner) : InRange(Lib, inner[i])
           /\ Container(name, inner)
           /\ UNCHANGED <<issued, synth>>
    \/ CheckResolved
    \/ \E tid \in ReprQueries : InRange(Lib, tid) /\ AsArg(tid)

SpecRepr == Init /\ [][NextRepr]_vars

(***************************************************************************)
(* Helpers of the properties.                                              *)
(***************************************************************************)
\* A name of the form "NS.N", its namespace part and its local part.
IsQualified(name) == Len(Split(name)) = 2
NsOf(name) == Split(name)[1]
LocalOf(name) == Split(name)[Len(Split(name))]

\* Name n of the namespace called ns holds a type in L.
Defined(L, ns, n) ==
    /\ ns \in DOMAIN L.index
    /\ n \in DOMAIN Library_namespace(L, L.index[ns]).index
    /\ Namespace_type_by_id(Library_namespace(L, L.index[ns]),
                            Library_namespace(L, L.index[ns]).index[n]) # NoType

\* The id Library::new gives the fundamental spelled s: its place in the table.
FundamentalId(s) == (CHOOSE i \in 1..Len(FUNDAMENTAL) : FUNDAMENTAL[i][1] = s) - 1

(***************************************************************************)
(* C1  Forward references.  A get_type of "NS.N" while NS.N has no         *)
(* definition returns a TypeId whose slot exists and is empty; a later     *)
(* add_type(NS, N, T) returns exactly that TypeId, adds no slot, and       *)
(* type_by_id of it is T from then.                                        *)
(***************************************************************************)
C1_ForwardReference ==
    [][ /\ ( /\ call'.op = "get_type" /\ ret'.outcome = "ok"
             /\ IsQualified(call'.name)
             /\ ~Defined(Lib, NsOf(call'.name), LocalOf(call'.name)) )
           => /\ InRange(Lib', ret'.tid)
              /\ Library_type_by_id(Lib', ret'.tid) = NoType
        /\ ( /\ call'.op = "add_type" /\ ret'.outcome = "ok"
             /\ issued # NoCall /\ issued.typ = NoType
             /\ IsQualified(issued.call.name)
             /\ index[NsOf(issued.call.name)] = call'.ns_id
             /\ LocalOf(issued.call.name) = call'.name )
           => /\ ret'.tid = issued.tid
              /\ NewSlots(Lib') = NewSlots(Lib)
              /\ Len(namespaces') = Len(namespaces)
              /\ Library_type_by_id(Lib', issued.tid) = call'.typ
      ]_vars

\* An empty slot was issued for "NS.N" and the definition just filled it.
C1_Witness ==
    /\ call.op = "add_type" /\ ret.outcome = "ok"
    /\ issued # NoCall /\ issued.typ = NoType
    /\ IsQualified(issued.call.name)
    /\ index[NsOf(issued.call.name)] = call.ns_id
    /\ LocalOf(issued.call.name) = call.name
    /\ ret.tid = issued.tid
    /\ Library_type_by_id(Lib, issued.tid) = call.typ

(***************************************************************************)
(* C2  Fundamental precedence, as claimed: get_type of an unqualified      *)
(* fundamental spelling returns the fundamental's TypeId in namespace 0    *)
(* from every current namespace, and type_by_id of it is the Fundamental   *)
(* of that spelling.                                                       *)
(***************************************************************************)
C2_FundamentalPrecedence ==
    (call.op = "get_type" /\ call.name \in FundamentalNames)
    => /\ ret = Some(TypeId(INTERNAL_NAMESPACE, FundamentalId(call.name)))
       /\ Library_type_by_id(Lib, ret.tid) = FundamentalOf(call.name)

(***************************************************************************)
(* C3  Validation completeness.  check_resolved panics exactly when some   *)
(* slot of some namespace is empty; the list it reports holds the          *)
(* qualified name "namespace.name" of every empty slot and nothing else.   *)
(***************************************************************************)
\* The empty slots, by position: <<namespace id, local id>>.
EmptySlots ==
    {p \in UNION {{<<n, i>> : i \in 0..(Len(Library_namespace(Lib, n).types) - 1)} :
                     n \in 0..(Len(namespaces) - 1)} :
        Library_type_by_id(Lib, TypeId(p[1], p[2])) = NoType}

\* The qualified names that name slot p.
NamesOfSlot(p) ==
    {QualifiedName(ns, n) :
        <<ns, n>> \in {q \in UNION {{<<a, b>> :
                                        b \in DOMAIN Library_namespace(Lib, index[a]).index} :
                                    a \in DOMAIN index} :
                          /\ index[q[1]] = p[1]
                          /\ Library_namespace(Lib, p[1]).index[q[2]] = p[2]}}

C3_ValidationComplete ==
    call.op = "check_resolved"
    => /\ (ret.outcome = "panic") <=> (EmptySlots # {})
       /\ ret.outcome = "panic"
          => /\ \A p \in EmptySlots : NamesOfSlot(p) # {} /\ NamesOfSlot(p) \subseteq ret.list
             /\ \A q \in ret.list : \E p \in EmptySlots : q \in NamesOfSlot(p)
       /\ ret.outcome # "panic" => ret = Unit

\* The sweep reported empty slots of two different namespaces.
C3_Witness ==
    /\ call.op = "check_resolved" /\ ret.outcome = "panic"
    /\ \E p, q \in EmptySlots : p[1] # q[1]
    /\ Cardinality(ret.list) >= 2

(***************************************************************************)
(* C4  Structural dedup.  A supported Type::container call that repeats    *)
(* an earlier one (same kind, same element TypeIds), whatever ran in       *)
(* between, returns the TypeId the earlier call returned, in namespace 0,  *)
(* and adds no slot and no namespace.                                      *)
(***************************************************************************)
C4_StructuralDedup ==
    [][ (synth # NoCall /\ call'.op = "container" /\ call' = synth.call)
        => /\ ret' = Some(synth.tid)
           /\ synth.tid.ns_id = INTERNAL_NAMESPACE
           /\ NewSlots(Lib') = NewSlots(Lib)
           /\ Len(namespaces') = Len(namespaces)
      ]_vars

\* A hash table was synthesized, a slot was added to namespace 0 after it,
\* and the same synthesis has just run again.
C4_Witness ==
    /\ synth # NoCall /\ call = synth.call /\ call.name = "GLib.HashTable"
    /\ ret = Some(synth.tid)
    /\ Len(Library_namespace(Lib, INTERNAL_NAMESPACE).types) > synth.tid.id + 1

(***************************************************************************)
(* C5  Container keys are injective.  A supported Type::container call     *)
(* returns the TypeId of an earlier one only if kind and element TypeIds   *)
(* (in order) are the same; swapped hash table elements give another one.  *)
(***************************************************************************)
C5_KeysInjective ==
    (synth # NoCall /\ call.op = "container" /\ ret.outcome = "ok"
        /\ ret.tid = synth.tid)
    => (call.name = synth.call.name /\ call.inner = synth.call.inner)

\* HashTable(k, v) was synthesized, then HashTable(v, k), k # v.
C5_Witness ==
    /\ synth # NoCall /\ synth.call.name = "GLib.HashTable"
    /\ call.op = "container" /\ call.name = "GLib.HashTable" /\ ret.outcome = "ok"
    /\ call.inner = <<synth.call.inner[2], synth.call.inner[1]>>
    /\ call.inner[1] # call.inner[2]
    /\ ret.tid # synth.tid

(***************************************************************************)
(* C6  Idempotent interning.  A get_type call that repeats the call just   *)
(* before it (same current namespace, same name) returns the same TypeId   *)
(* and leaves namespaces and indexes as they were.                         *)
(***************************************************************************)
C6_IdempotentInterning ==
    [][ (call.op = "get_type" /\ ret.outcome = "ok" /\ call' = call)
        => (ret' = ret /\ namespaces' = namespaces /\ index' = index)
      ]_vars

\* get_type created an empty slot, and the same call has returned it (the
\* state a repeated call leaves is the state the first call left).
C6_Witness ==
    /\ call.op = "get_type" /\ ret.outcome = "ok"
    /\ issued # NoCall /\ issued.call = call /\ issued.typ = NoType
    /\ ret.tid = issued.tid
    /\ Library_type_by_id(Lib, ret.tid) = NoType

(***************************************************************************)
(* C7  Resolution independent of order, as claimed: every get_type call    *)
(* with the same current namespace and the same name returns the TypeId    *)
(* an earlier such call returned.                                          *)
(***************************************************************************)
C7_SameTypeIdEveryCall ==
    (issued # NoCall /\ call.op = "get_type" /\ ret.outcome = "ok"
        /\ call = issued.call)
    => ret.tid = issued.tid

(***************************************************************************)
(* C8  Qualified and unqualified resolution.  get_type(Foo, "NS.T")        *)
(* creates namespace NS when it is missing, returns the TypeId of T in NS  *)
(* and leaves Foo untouched when NS is not Foo.  get_type(Foo, "T"), T     *)
(* unqualified and no name of namespace 0, returns the TypeId of T in Foo. *)
(* The two TypeIds differ when NS is not Foo.                              *)
(***************************************************************************)
C8_QualifiedVsUnqualified ==
    [][ /\ (call'.op = "get_type" /\ IsQualified(call'.name))
           => LET NS == NsOf(call'.name)
                  T == LocalOf(call'.name)
                  Foo == call'.ns_id
              IN  /\ ret'.outcome = "ok"
                  /\ NS \in DOMAIN index'
                  /\ Len(namespaces') =
                        Len(namespaces) + (IF NS \in DOMAIN index THEN 0 ELSE 1)
                  /\ ret'.tid.ns_id = index'[NS]
                  /\ T \in DOMAIN Library_namespace(Lib', index'[NS]).index
                  /\ Library_namespace(Lib', index'[NS]).index[T] = ret'.tid.id
                  /\ (HasNamespaceId(Lib, Foo) /\ index'[NS] # Foo)
                     => Library_namespace(Lib', Foo) = Library_namespace(Lib, Foo)
                  /\ ( /\ issued # NoCall /\ issued.call.ns_id = Foo
                       /\ issued.call.name = T /\ issued.tid.ns_id = Foo
                       /\ index'[NS] # Foo )
                     => ret'.tid # issued.tid
        /\ ( /\ call'.op = "get_type" /\ Len(Split(call'.name)) = 1
             /\ call'.name \notin DOMAIN Library_namespace(Lib, INTERNAL_NAMESPACE).index
             /\ HasNamespaceId(Lib, call'.ns_id) )
           => LET Foo == call'.ns_id
              IN  /\ ret'.outcome = "ok"
                  /\ ret'.tid.ns_id = Foo
                  /\ call'.name \in DOMAIN Library_namespace(Lib', Foo).index
                  /\ Library_namespace(Lib', Foo).index[call'.name] = ret'.tid.id
                  /\ ( /\ issued # NoCall /\ issued.call.ns_id = Foo
                       /\ IsQualified(issued.call.name)
                       /\ LocalOf(issued.call.name) = call'.name
                       /\ index[NsOf(issued.call.name)] # Foo )
                     => ret'.tid # issued.tid
      ]_vars

\* "T" was resolved from Foo into Foo, then "NS.T" from Foo into the one
\* slot of NS, the namespace created last.
C8_Witness ==
    /\ call.op = "get_type" /\ IsQualified(call.name) /\ ret.outcome = "ok"
    /\ call.ns_id # INTERNAL_NAMESPACE
    /\ issued # NoCall /\ issued.call.ns_id = call.ns_id
    /\ issued.call.name = LocalOf(call.name)
    /\ issued.tid.ns_id = call.ns_id
    /\ ret.tid.ns_id = index[NsOf(call.name)]
    /\ ret.tid.ns_id = Len(namespaces) - 1
    /\ ret.tid.ns_id # call.ns_id
    /\ Len(Library_namespace(Lib, ret.tid.ns_id).types) = 1

(***************************************************************************)
(* C9  add_type on any namespace identifier, as claimed: it defines the    *)
(* name in that namespace and returns its TypeId, creating the namespace   *)
(* when the identifier indexes none.                                       *)
(***************************************************************************)
C9_AddTypeAnyNamespace ==
    call.op = "add_type"
    => /\ ret.outcome = "ok"
       /\ ret.tid.ns_id = call.ns_id
       /\ InRange(Lib, ret.tid)
       /\ Library_type_by_id(Lib, ret.tid) = call.typ

(***************************************************************************)
(* C9, amended.  add_type defines the name in the given namespace and      *)
(* returns its TypeId when the identifier indexes an existing namespace;   *)
(* it never creates a namespace: on an identifier that indexes none it     *)
(* panics and the library is unchanged.                                    *)
(***************************************************************************)
C9_AddTypeExistingNamespace ==
    [][ call'.op = "add_type"
        => /\ Len(namespaces') = Len(namespaces)
           /\ index' = index
           /\ IF HasNamespaceId(Lib, call'.ns_id)
              THEN /\ ret'.outcome = "ok"
                   /\ ret'.tid.ns_id = call'.ns_id
                   /\ InRange(Lib', ret'.tid)
                   /\ Library_namespace(Lib', call'.ns_id).index[call'.name] = ret'.tid.id
                   /\ Library_type_by_id(Lib', ret'.tid) = call'.typ
              ELSE /\ ret'.outcome = "panic"
                   /\ namespaces' = namespaces
      ]_vars

\* add_type has panicked on an identifier that indexes no namespace.
C9_Witness ==
    /\ call.op = "add_type" /\ ret.outcome = "panic"
    /\ ~HasNamespaceId(Lib, call.ns_id)

(***************************************************************************)
(* C10  Unsupported container.  Type::container with a (kind, number of    *)
(* elements) other than (array, 1), (GLib.List, 1), (GLib.SList, 1),       *)
(* (GLib.HashTable, 2) returns None and changes no namespace and no index. *)
(***************************************************************************)
SupportedContainers ==
    {<<"array", 1>>, <<"GLib.List", 1>>, <<"GLib.SList", 1>>, <<"GLib.HashTable", 2>>}

C10_UnsupportedContainer ==
    [][ (call'.op = "container"
            /\ <<call'.name, Len(call'.inner)>> \notin SupportedContainers)
        => (ret' = None /\ namespaces' = namespaces /\ index' = index)
      ]_vars

\* A hash table of one element was asked for, and refused.
C10_Witness ==
    /\ call.op = "container" /\ call.name = "GLib.HashTable"
    /\ Len(call.inner) = 1
    /\ ret = None

\* C11: a name of more than two '.'-separated segments is rejected by
\* get_type, and the call fails before any namespace or slot is created: the
\* library after the failed call is the library before it.
C11_MultiLevelRejected ==
    [][(call'.op = "get_type" /\ Len(Split(call'.name)) > 2)
          => /\ ret'.outcome = "panic"
             /\ namespaces' = namespaces
             /\ index' = index]_vars

\* get_type("A.B.C") panicked in a library that knows "Foo", and none of the
\* name's segments became a namespace.
C11_Witness ==
    /\ call.op = "get_type"
    /\ call.name = "A.B.C"
    /\ ret.outcome = "panic"
    /\ "Foo" \in DOMAIN index
    /\ DOMAIN index \cap {"A", "B", "C"} = {}

(***************************************************************************)
(* Helpers of the properties on representations.                           *)
(***************************************************************************)
\* Every TypeId that names a slot of L.
AllTids(L) ==
    UNION { {TypeId(n, i) : i \in 0..(Len(Library_namespace(L, n).types) - 1)} :
            n \in 0..(Len(L.namespaces) - 1) }

\* What the slot of a TypeId holds now, and its representation.
TypeOf(tid) == Library_type_by_id(Lib, tid)
Repr(tid) == Library_as_arg(Lib, tid)

\* C12: for every alias chain A -> B -> C whose slots are all defined and
\* whose end C is not an alias, as_arg of A, of B and of C are equal; an
\* as_arg call on A or B returns what C's derivation gives.
C12_AliasTransitivity ==
    \A a \in AllTids(Lib) :
        TypeOf(a).kind = "Alias" /\ InRange(Lib, TypeOf(a).typ) =>
            LET b == TypeOf(a).typ
            IN  TypeOf(b).kind = "Alias" /\ InRange(Lib, TypeOf(b).typ) =>
                    LET c == TypeOf(b).typ
                    IN  TypeOf(c).kind \notin {"None", "Alias"} =>
                            /\ Repr(a) = Repr(b)
                            /\ Repr(b) = Repr(c)
                            /\ (call.op = "as_arg" /\ call.tid \in {a, b}
                                    => ret = Repr(c))

\* as_arg was called on an alias of another alias of gint32 and returned the
\* representation of gint32.
C12_Witness ==
    /\ call.op = "as_arg"
    /\ TypeOf(call.tid).kind = "Alias"
    /\ TypeOf(call.tid).typ # call.tid
    /\ InRange(Lib, TypeOf(call.tid).typ)
    /\ TypeOf(TypeOf(call.tid).typ) = Alias(TypeId(0, 6))
    /\ TypeOf(TypeId(0, 6)) = Fundamental("Int32")
    /\ ret = Str("gint32")

\* The slots that hold a container type, and the representations of the
\* element types of a container, in order.
ContainerTids(L) ==
    {t \in AllTids(L) :
        Library_type_by_id(L, t).kind \in {"Array", "HashTable", "List", "SList"}}
ElementReprs(tid) ==
    IF TypeOf(tid).kind = "HashTable"
    THEN <<Repr(TypeOf(tid).k), Repr(TypeOf(tid).v)>>
    ELSE <<Repr(TypeOf(tid).typ)>>
ElementsRepresented(tid) ==
    \A i \in 1..Len(ElementReprs(tid)) : ElementReprs(tid)[i].outcome = "ok"

\* C13 (as claimed): two containers of the same kind (Array, List, SList or
\* HashTable) whose element types have different representations have
\* different representations.
C13_ContainerReprFromElements ==
    \A t1, t2 \in ContainerTids(Lib) :
        (/\ TypeOf(t1).kind = TypeOf(t2).kind
         /\ ElementsRepresented(t1)
         /\ ElementsRepresented(t2)
         /\ ElementReprs(t1) # ElementReprs(t2))
            => Repr(t1) # Repr(t2)

\* C13 (amended): the representation of an Array is "*mut " followed by the
\* representation of its element type, so arrays of differently represented
\* elements are represented differently; the representation of a List, an
\* SList and a HashTable is the fixed string "*mut GList", "*mut GSList",
\* "*mut GHashTable", whatever the element types are.
C13_ArrayReprFromElement ==
    /\ \A t \in ContainerTids(Lib) :
          /\ (TypeOf(t).kind = "Array" /\ ElementsRepresented(t))
                => Repr(t) = Str("*mut " \o ElementReprs(t)[1].repr)
          /\ TypeOf(t).kind = "List" => Repr(t) = Str("*mut GList")
          /\ TypeOf(t).kind = "SList" => Repr(t) = Str("*mut GSList")
          /\ TypeOf(t).kind = "HashTable" => Repr(t) = Str("*mut GHashTable")
          /\ (call.op = "as_arg" /\ call.tid = t) => ret = Repr(t)
    /\ \A t1, t2 \in ContainerTids(Lib) :
          (/\ TypeOf(t1).kind = "Array"
           /\ TypeOf(t2).kind = "Array"
           /\ ElementsRepresented(t1)
           /\ ElementsRepresented(t2)
           /\ ElementReprs(t1) # ElementReprs(t2))
              => Repr(t1) # Repr(t2)

\* as_arg was called on an array of gboolean, next to an array of gint32,
\* and returned "*mut gboolean".
C13_Witness ==
    /\ call.op = "as_arg"
    /\ TypeOf(call.tid) = Array(TypeId(0, 1))
    /\ ret = Str("*mut gboolean")
    /\ \E t \in ContainerTids(Lib) :
          TypeOf(t) = Array(TypeId(0, 6)) /\ Repr(t) = Str("*mut gint32")

\* The TypeIds a derivation goes through from the TypeIds of frontier: the
\* targets of aliases and the elements of arrays, followed link by link.
RECURSIVE Reach(_, _, _)
Reach(L, frontier, seen) ==
    LET next == {Library_type_by_id(L, t).typ :
                    t \in {x \in frontier :
                              /\ InRange(L, x)
                              /\ Library_type_by_id(L, x).kind \in {"Alias", "Array"}}}
    IN  IF next \subseteq (seen \cup frontier)
        THEN seen \cup frontier
        ELSE Reach(L, next \ (seen \cup frontier), seen \cup frontier)

ReachesUnsupported(tid) ==
    \E u \in Reach(Lib, {tid}, {}) :
        InRange(Lib, u) /\ TypeOf(u) = Fundamental("Unsupported")

\* C14: as_arg panics, returning no string, whenever the derivation reaches
\* Fundamental::Unsupported ("long double", "va_list" and no other spelling),
\* directly or through aliases and array elements; it returns a string for
\* every other fundamental kind.
C14_UnsupportedFailsFast ==
    /\ \A t \in AllTids(Lib) :
          /\ ReachesUnsupported(t) => Repr(t) = Panic("unsupported type")
          /\ (TypeOf(t).kind = "Fundamental" /\ TypeOf(t).f # "Unsupported")
                => Repr(t).outcome = "ok"
          /\ (call.op = "as_arg" /\ call.tid = t) => ret = Repr(t)
    /\ \A i \in 1..Len(FUNDAMENTAL) :
          /\ FUNDAMENTAL[i][2] # "Unsupported"
                => Fundamental_as_arg(FUNDAMENTAL[i][2]).outcome = "ok"
          /\ FUNDAMENTAL[i][2] = "Unsupported"
                <=> FUNDAMENTAL[i][1] \in {"long double", "va_list"}

\* as_arg was called on an array whose element is an alias of long double,
\* and panicked.
C14_Witness ==
    /\ call.op = "as_arg"
    /\ TypeOf(call.tid).kind = "Array"
    /\ InRange(Lib, TypeOf(call.tid).typ)
    /\ TypeOf(TypeOf(call.tid).typ) = Alias(TypeId(0, 20))
    /\ TypeOf(TypeId(0, 20)) = Fundamental("Unsupported")
    /\ ret = Panic("unsupported type")

\* C15: every TypeId returned by get_type, add_type or container names an
\* existing slot of an existing namespace when it is returned, and every
\* TypeId that names a slot (the remembered results of earlier calls among
\* them) still names one after every operation, as no namespace and no slot
\* arena gets shorter: type_by_id on a returned TypeId never goes out of
\* range.
C15_TypeIdsStayValid ==
    [][/\ (call'.op \in {"get_type", "add_type", "container"}
              /\ ret'.outcome = "ok")
            => InRange(Lib', ret'.tid)
       /\ \A n \in 1..Len(namespaces) :
             /\ n <= Len(namespaces')
             /\ Len(namespaces[n].types) <= Len(namespaces'[n].types)
       /\ issued' # NoCall => InRange(Lib', issued'.tid)
       /\ synth' # NoCall => InRange(Lib', synth'.tid)]_vars

\* A TypeId returned by an earlier get_type and one returned by an earlier
\* container call are in range after a later add_type created a slot.
C15_Witness ==
    /\ issued # NoCall
    /\ synth # NoCall
    /\ call.op = "add_type"
    /\ ret.outcome = "ok"
    /\ ret.tid \notin {issued.tid, synth.tid}
    /\ InRange(Lib, ret.tid)
    /\ InRange(Lib, issued.tid)
    /\ InRange(Lib, synth.tid)
    /\ NewSlots(Lib) = MaxSlots

\* C16: across every operation the number of namespaces and the number of
\* slots of each namespace never decrease, a name -> namespace-id and a
\* name -> local-id mapping that exists never changes, and a slot that holds
\* a type never becomes empty again.
C16_GraphOnlyGrows ==
    [][\/ namespaces' = namespaces /\ index' = index
       \/ /\ Len(namespaces') >= Len(namespaces)
          /\ \A name \in DOMAIN index :
                name \in DOMAIN index' /\ index'[name] = index[name]
          /\ \A n \in 1..Len(namespaces) :
                /\ Len(namespaces'[n].types) >= Len(namespaces[n].types)
                /\ \A name \in DOMAIN namespaces[n].index :
                      /\ name \in DOMAIN namespaces'[n].index
                      /\ namespaces'[n].index[name] = namespaces[n].index[name]
                /\ \A i \in 1..Len(namespaces[n].types) :
                      namespaces[n].types[i] # NoType
                          => namespaces'[n].types[i] # NoType]_vars

\* The library has grown by a namespace and by MaxSlots slots; the slot a
\* forward reference created has been defined by the last call and the
\* TypeId of the reference still names it.
C16_Witness ==
    /\ "Foo" \in DOMAIN index
    /\ Len(namespaces) > 1
    /\ NewSlots(Lib) = MaxSlots
    /\ issued # NoCall
    /\ issued.typ = NoType
    /\ call.op = "add_type"
    /\ ret = Some(issued.tid)
    /\ TypeOf(issued.tid) = Record("Widget")

\* C17: add_type(ns, name, T2) on a name whose slot already holds a type T1
\* raises no error, returns the TypeId the name already had, creates no slot,
\* and leaves T2 in that slot; every other slot and both indexes are as
\* before.
C17_RedefinitionOverwrites ==
    [][(/\ call'.op = "add_type"
        /\ HasNamespaceId(Lib, call'.ns_id)
        /\ call'.name \in DOMAIN Library_namespace(Lib, call'.ns_id).index
        /\ TypeOf(TypeId(call'.ns_id,
               Library_namespace(Lib, call'.ns_id).index[call'.name])) # NoType)
          => LET id == Library_namespace(Lib, call'.ns_id).index[call'.name]
             IN  /\ ret' = Some(TypeId(call'.ns_id, id))
                 /\ index' = index
                 /\ namespaces' =
                       [namespaces EXCEPT ![call'.ns_id + 1].types[id + 1] = call'.typ]
                 /\ Library_type_by_id(Lib', TypeId(call'.ns_id, id)) = call'.typ]_vars

\* "gint32", defined as Fundamental(Int32) by construction, was defined
\* again as a record: same TypeId, same number of slots, the record in the
\* slot.
C17_Witness ==
    /\ call = [op |-> "add_type", ns_id |-> INTERNAL_NAMESPACE, name |-> "gint32",
               typ |-> Record("Widget")]
    /\ ret = Some(TypeId(INTERNAL_NAMESPACE, 6))
    /\ TypeOf(TypeId(INTERNAL_NAMESPACE, 6)) = Record("Widget")
    /\ NewSlots(Lib) = 0

\* A map from names to identifiers is a bijection onto 0 .. n-1.
IsBijectionOnto(idx, n) ==
    /\ {idx[name] : name \in DOMAIN idx} = 0..(n - 1)
    /\ Cardinality(DOMAIN idx) = n

\* C18: in every namespace the name index is injective and its identifiers
\* are exactly 0 .. number_of_slots - 1, so every slot has exactly one name
\* and every empty slot is reported by Namespace::unresolved; the namespace
\* index of the library is a bijection onto 0 .. number_of_namespaces - 1
\* likewise.
C18_IndexSlotBijection ==
    /\ IsBijectionOnto(index, Len(namespaces))
    /\ \A n \in 1..Len(namespaces) :
          /\ IsBijectionOnto(namespaces[n].index, Len(namespaces[n].types))
          /\ \A i \in 1..Len(namespaces[n].types) :
                namespaces[n].types[i] = NoType
                    => \E name \in Namespace_unresolved(namespaces[n]) :
                          namespaces[n].index[name] = i - 1

\* Three namespaces, one of them with an empty slot and one with a defined
\* slot, after a get_type that found its name.
C18_Witness ==
    /\ Len(namespaces) = 3
    /\ NewSlots(Lib) = MaxSlots
    /\ call.op = "get_type"
    /\ ret.outcome = "ok"
    /\ issued # NoCall
    /\ issued.call = call
    /\ \E n \in 2..3 : NoType \in {namespaces[n].types[i] :
                                      i \in 1..Len(namespaces[n].types)}
    /\ \E n \in 2..3 : Record("Widget") \in {namespaces[n].types[i] :
                                      i \in 1..Len(namespaces[n].types)}

\* C19: in a state where check_resolved has returned without error,
\* type_by_id gives a type for every TypeId that names a slot, and every
\* TypeId stored as an alias target or a container element names a slot that
\* holds a type: no derivation fails on an index out of range or on the
\* unwrap of an empty slot.
C19_ValidatedIsTotal ==
    (call.op = "check_resolved" /\ ret = Unit) =>
        \A t \in AllTids(Lib) :
            /\ TypeOf(t) # NoType
            /\ \A u \in TidsOf(TypeOf(t)) : InRange(Lib, u) /\ TypeOf(u) # NoType
            /\ Repr(t) \notin {Panic("unwrap on None"), Panic("index out of bounds")}

\* check_resolved returned on a library in which an alias, defined before
\* its target was, points at a slot of namespace "Foo" that is defined by now.
C19_Witness ==
    /\ call.op = "check_resolved"
    /\ ret = Unit
    /\ InRange(Lib, TypeId(1, 1))
    /\ TypeOf(TypeId(1, 0)) = Alias(TypeId(1, 1))
    /\ TypeOf(TypeId(1, 1)) = Enumeration("Flags")
    /\ Repr(TypeId(1, 0)) = Str("Flags")

\* C20: once check_resolved has returned without error, as_arg on any type
\* of the library finishes, with a string or a panic, after finitely many
\* recursive steps, aliases that point at each other included.
C20_DerivationTerminates ==
    [][(call.op = "check_resolved" /\ ret = Unit /\ call'.op = "as_arg")
          => ret'.outcome \in {"ok", "panic"}]_vars

====
